---- MODULE Spec2Model ----
(***************************************************************************)
(* A model of the kora lexer (packages/kora_lexer/src/lexer.rs).           *)
(*                                                                         *)
(* A source text is a sequence of Unicode scalar values; each scalar is    *)
(* written as a string ("+", "i", "U+20AC") and has a UTF-8 length.  The   *)
(* lexer slices its remaining view by BYTE offsets, so every slice is      *)
(* modelled by the byte offset the code computes, and a slice whose offset *)
(* is out of range or inside a multi-byte scalar panics, as `&str[..n]`    *)
(* does in Rust.                                                           *)
(***************************************************************************)
EXTENDS Integers, Sequences, FiniteSets, TLC

\* ------------------------------------------------------------------ bounds

\* Longest input (in scalars) enumerated over CoreAlphabet.
MaxLen == 3
\* Longest input (in scalars) enumerated over FullAlphabet.
MaxOpLen == 2
\* How many calls that report exhaustion are followed.
MaxExhaustedCalls == 2

\* -------------------------------------------------------------- characters

\* U+20AC EURO SIGN: three UTF-8 bytes, not whitespace, not XID_Start.
EuroSign == "U+20AC"
\* U+3000 IDEOGRAPHIC SPACE: three UTF-8 bytes, White_Space.
IdeographicSpace == "U+3000"
\* U+00E9 LATIN SMALL LETTER E WITH ACUTE: two UTF-8 bytes, XID_Start.
EAcute == "U+00E9"

\* char::len_utf8
len_utf8(c) ==
    IF c \in {EuroSign, IdeographicSpace} THEN 3
    ELSE IF c = EAcute THEN 2
    ELSE 1

WhitespaceChars == {" ", "\n", "\t", IdeographicSpace}

\* char::is_whitespace
is_whitespace(c) == c \in WhitespaceChars

Letters ==
    {"a", "b", "c", "d", "e", "f", "h", "i", "l", "n", "o", "r", "s", "t",
     "u", "w", "x", "I", EAcute}

Digits == {"0", "1"}

\* is_xid_start accepting a digit as the first scalar of an identifier.
is_xid_start_OrDigit(c) == c \in Letters \cup Digits

\* unicode_ident::is_xid_start
is_xid_start(c) == c \in Letters

\* unicode_ident::is_xid_continue
is_xid_continue(c) == c \in Letters \cup Digits \cup {"_"}

\* ------------------------------------------------------------- byte slices

RECURSIVE ByteLen(_)
\* str::len: the length of a text in UTF-8 bytes.
ByteLen(s) == IF s = <<>> THEN 0 ELSE len_utf8(Head(s)) + ByteLen(Tail(s))

\* str::is_char_boundary, for an offset the slice operators accept.
IsCharBoundary(s, width) ==
    \E n \in 0..Len(s) : ByteLen(SubSeq(s, 1, n)) = width

\* The number of scalars in the first `width` bytes of s.
CharsIn(s, width) ==
    CHOOSE n \in 0..Len(s) : ByteLen(SubSeq(s, 1, n)) = width

\* ----------------------------------------------------------------- tokens

\* Option::None, and what a call returns: ret is "Some", "None" or "panic";
\* rest is self.source_code when the call ends.
None(s) == [ret |-> "None", kind |-> "None", text |-> <<>>, rest |-> s]

Panic(s) == [ret |-> "panic", kind |-> "None", text |-> <<>>, rest |-> s]

Some(kind, text, rest) ==
    [ret |-> "Some", kind |-> kind, text |-> text, rest |-> rest]

\* SliceToken with the remaining view advanced one scalar too far.
SliceToken_SkipsOne(s, width, kind) ==
    IF IsCharBoundary(s, width)
    THEN LET n == CharsIn(s, width)
         IN  Some(kind, SubSeq(s, 1, n),
                  IF n < Len(s) THEN SubSeq(s, n + 2, Len(s)) ELSE <<>>)
    ELSE Panic(s)

\* let text = &self.source_code[..width];
\* self.source_code = &self.source_code[width..];
\* Some(Token { kind, text })
SliceToken(s, width, kind) ==
    IF IsCharBoundary(s, width)
    THEN LET n == CharsIn(s, width)
         IN  Some(kind, SubSeq(s, 1, n), SubSeq(s, n + 1, Len(s)))
    ELSE Panic(s)

\* ------------------------------------------------------------------ rules

\* The match of consume_two_chars_token.
TwoCharsKind(current_char, next_char) ==
    CASE current_char = "+" /\ next_char = "=" -> "PlusEqual"
      [] current_char = "-" /\ next_char = "=" -> "MinusEqual"
      [] current_char = "*" /\ next_char = "=" -> "MultiplyEqual"
      [] current_char = "/" /\ next_char = "=" -> "DivideEqual"
      [] current_char = "%" /\ next_char = "=" -> "ModuloEqual"
      [] current_char = "&" /\ next_char = "&" -> "AndAnd"
      [] current_char = "|" /\ next_char = "|" -> "OrOr"
      [] current_char = "!" /\ next_char = "=" -> "NotEqual"
      [] current_char = "<" /\ next_char = "=" -> "LessThanEqual"
      [] current_char = ">" /\ next_char = "=" -> "GreaterThanEqual"
      [] current_char = "<" /\ next_char = "<" -> "LessThanLessThan"
      [] current_char = ">" /\ next_char = ">" -> "GreaterThanGreaterThan"
      [] OTHER -> "None"

consume_two_chars_token(s, current_char, next_char) ==
    LET token_kind == TwoCharsKind(current_char, next_char)
    IN  IF token_kind = "None" THEN None(s) ELSE SliceToken(s, 2, token_kind)

\* The match of consume_one_char_token.
OneCharKind(current_char) ==
    CASE current_char = "=" -> "Equal"
      [] current_char = "+" -> "Plus"
      [] current_char = "-" -> "Minus"
      [] current_char = "*" -> "Multiply"
      [] current_char = "/" -> "Divide"
      [] current_char = "%" -> "Modulo"
      [] current_char = "&" -> "And"
      [] current_char = "|" -> "Or"
      [] current_char = "^" -> "Caret"
      [] current_char = "!" -> "Not"
      [] current_char = "<" -> "LessThan"
      [] current_char = ">" -> "GreaterThan"
      [] current_char = "(" -> "LeftParenthesis"
      [] current_char = ")" -> "RightParenthesis"
      [] current_char = "[" -> "LeftBracket"
      [] current_char = "]" -> "RightBracket"
      [] current_char = "{" -> "LeftBrace"
      [] current_char = "}" -> "RightBrace"
      [] current_char = "," -> "Comma"
      [] current_char = "." -> "Dot"
      [] current_char = ";" -> "Semicolon"
      [] current_char = ":" -> "Colon"
      [] OTHER -> "None"

consume_one_char_token(s, current_char) ==
    LET token_kind == OneCharKind(current_char)
    IN  IF token_kind = "None" THEN None(s) ELSE SliceToken(s, 1, token_kind)

\* The match on token_text of consume_keyword_or_identifier_token.
KeywordKind(token_text) ==
    CASE token_text = <<"d", "e", "f">> -> "Def"
      [] token_text = <<"e", "x", "t", "e", "n", "d">> -> "Extend"
      [] token_text = <<"w", "i", "t", "h">> -> "With"
      [] token_text = <<"i", "f">> -> "If"
      [] token_text = <<"e", "l", "s", "e">> -> "Else"
      [] token_text = <<"f", "o", "r">> -> "For"
      [] token_text = <<"s", "t", "r", "u", "c", "t">> -> "Struct"
      [] OTHER -> "Identifier"

RECURSIVE XidContinueWidth_XidStartOnly(_)
\* XidContinueWidth with the loop testing is_xid_start in place of
\* is_xid_continue, so that a digit or an underscore ends the token.
XidContinueWidth_XidStartOnly(chars) ==
    IF chars = <<>> \/ ~is_xid_start(Head(chars)) THEN 0
    ELSE len_utf8(Head(chars)) + XidContinueWidth_XidStartOnly(Tail(chars))

RECURSIVE XidContinueWidth(_)
\* The loop of consume_keyword_or_identifier_token over the scalars after the
\* first: the bytes of the leading run of XID_Continue scalars.
XidContinueWidth(chars) ==
    IF chars = <<>> \/ ~is_xid_continue(Head(chars)) THEN 0
    ELSE len_utf8(Head(chars)) + XidContinueWidth(Tail(chars))

consume_keyword_or_identifier_token(s) ==
    IF s = <<>> THEN None(s)
    ELSE IF ~is_xid_start(Head(s)) THEN None(s)
    ELSE LET keyword_width == len_utf8(Head(s)) + XidContinueWidth(Tail(s))
             sliced == SliceToken(s, keyword_width, "Identifier")
         IN  IF sliced.ret = "Some"
             THEN Some(KeywordKind(sliced.text), sliced.text, sliced.rest)
             ELSE sliced

RECURSIVE WhitespaceWidth_StopsAtNewline(_)
\* WhitespaceWidth with the run ended by (and including) its first newline.
WhitespaceWidth_StopsAtNewline(chars) ==
    IF chars = <<>> \/ ~is_whitespace(Head(chars)) THEN 0
    ELSE IF Head(chars) = "\n" THEN len_utf8(Head(chars))
    ELSE len_utf8(Head(chars)) + WhitespaceWidth_StopsAtNewline(Tail(chars))

RECURSIVE WhitespaceWidth(_)
\* The loop of consume_whitespace: the bytes of the leading whitespace run.
WhitespaceWidth(chars) ==
    IF chars = <<>> \/ ~is_whitespace(Head(chars)) THEN 0
    ELSE len_utf8(Head(chars)) + WhitespaceWidth(Tail(chars))

consume_whitespace(s) ==
    LET whitespace_width == WhitespaceWidth(s)
    IN  IF whitespace_width > 0
        THEN SliceToken(s, whitespace_width, "Trivia")
        ELSE None(s)

\* str::starts_with("//")
StartsWithComment(s) == Len(s) >= 2 /\ s[1] = "/" /\ s[2] = "/"

RECURSIVE CommentLoopWidth(_)
\* The loop of consume_comment, which runs over self.source_code.chars()
\* from the first scalar of the view: the bytes up to and including the first
\* newline, or all of them.
CommentLoopWidth(chars) ==
    IF chars = <<>> THEN 0
    ELSE IF Head(chars) = "\n" THEN len_utf8(Head(chars))
    ELSE len_utf8(Head(chars)) + CommentLoopWidth(Tail(chars))

\* consume_comment reading the first "/" off the view before it looks for the
\* second, and not putting it back when the second is missing.
consume_comment_EatsSlash(s) ==
    IF ~StartsWithComment(s)
    THEN IF s # <<>> /\ s[1] = "/" THEN None(Tail(s)) ELSE None(s)
    ELSE LET comment_width == 2 + CommentLoopWidth(s)
         IN  IF comment_width > 0
             THEN SliceToken(s, comment_width, "Trivia")
             ELSE None(s)

consume_comment(s) ==
    IF ~StartsWithComment(s) THEN None(s)
    ELSE LET comment_width == 2 + CommentLoopWidth(s)
         IN  IF comment_width > 0
             THEN SliceToken(s, comment_width, "Trivia")
             ELSE None(s)

\* consume_trivia with the comment rule left out.
consume_trivia_WhitespaceOnly(s) ==
    LET whitespace == consume_whitespace(s)
    IN  IF whitespace.ret # "None" THEN whitespace
        ELSE None(whitespace.rest)

consume_trivia(s) ==
    LET whitespace == consume_whitespace(s)
    IN  IF whitespace.ret # "None" THEN whitespace
        ELSE LET comment == consume_comment(whitespace.rest)
             IN  IF comment.ret # "None" THEN comment
                 ELSE None(comment.rest)

\* consume_token with the one-character rule tried before the two-character
\* rule.
consume_token_OneCharFirst(s) ==
    IF ByteLen(s) = 0 THEN None(s)
    ELSE
    LET trivia_token == consume_trivia(s)
    IN  IF trivia_token.ret # "None" THEN trivia_token
        ELSE
        LET src == trivia_token.rest
        IN  IF src = <<>> THEN None(src)
            ELSE
            LET current_char == src[1]
                one_char_token == consume_one_char_token(src, current_char)
            IN  IF one_char_token.ret # "None" THEN one_char_token
                ELSE
                LET two_char_token ==
                        IF Len(src) >= 2
                        THEN consume_two_chars_token(src, current_char, src[2])
                        ELSE None(src)
                IN  IF two_char_token.ret # "None" THEN two_char_token
                    ELSE
                    LET keyword_or_identifier_token ==
                            consume_keyword_or_identifier_token(two_char_token.rest)
                    IN  IF keyword_or_identifier_token.ret # "None"
                        THEN keyword_or_identifier_token
                        ELSE SliceToken(keyword_or_identifier_token.rest, 1, "Illegal")

\* consume_token with a digit that no rule matched classified as an integer
\* literal.
consume_token_DigitLiteral(s) ==
    IF ByteLen(s) = 0 THEN None(s)
    ELSE
    LET trivia_token == consume_trivia(s)
    IN  IF trivia_token.ret # "None" THEN trivia_token
        ELSE
        LET src == trivia_token.rest
        IN  IF src = <<>> THEN None(src)
            ELSE
            LET current_char == src[1]
                two_char_token ==
                    IF Len(src) >= 2
                    THEN consume_two_chars_token(src, current_char, src[2])
                    ELSE None(src)
            IN  IF two_char_token.ret # "None" THEN two_char_token
                ELSE
                LET one_char_token ==
                        consume_one_char_token(two_char_token.rest, current_char)
                IN  IF one_char_token.ret # "None" THEN one_char_token
                    ELSE
                    LET keyword_or_identifier_token ==
                            consume_keyword_or_identifier_token(one_char_token.rest)
                    IN  IF keyword_or_identifier_token.ret # "None"
                        THEN keyword_or_identifier_token
                        ELSE SliceToken(keyword_or_identifier_token.rest, 1,
                                        IF current_char \in Digits
                                        THEN "IntegerLiteral" ELSE "Illegal")

consume_token(s) ==
    IF ByteLen(s) = 0 THEN None(s)
    ELSE
    LET trivia_token == consume_trivia(s)
    IN  IF trivia_token.ret # "None" THEN trivia_token
        ELSE
        LET src == trivia_token.rest
        IN  IF src = <<>> THEN None(src)
            ELSE
            LET current_char == src[1]
                two_char_token ==
                    IF Len(src) >= 2
                    THEN consume_two_chars_token(src, current_char, src[2])
                    ELSE None(src)
            IN  IF two_char_token.ret # "None" THEN two_char_token
                ELSE
                LET one_char_token ==
                        consume_one_char_token(two_char_token.rest, current_char)
                IN  IF one_char_token.ret # "None" THEN one_char_token
                    ELSE
                    LET keyword_or_identifier_token ==
                            consume_keyword_or_identifier_token(one_char_token.rest)
                    IN  IF keyword_or_identifier_token.ret # "None"
                        THEN keyword_or_identifier_token
                        ELSE SliceToken(keyword_or_identifier_token.rest, 1, "Illegal")

\* ------------------------------------------------------------------ inputs

\* Every text over alphabet of at most n scalars.
Strings(alphabet, n) == UNION {[1..k -> alphabet] : k \in 0..n}

CoreAlphabet == {" ", "\n", "/", "=", "+", "&", "i", "f", "x", "1", EuroSign}

OperatorChars ==
    {"=", "+", "-", "*", "/", "%", "&", "|", "^", "!", "<", ">", "(", ")",
     "[", "]", "{", "}", ",", ".", ";", ":"}

FullAlphabet ==
    CoreAlphabet \cup OperatorChars
        \cup {"\t", IdeographicSpace, EAcute, "I", "_", "\"", "0"}

\* The inputs of the specification's scenarios, the keywords, and texts that
\* put a comment before and after other tokens.
Scenarios ==
    { <<"a", "+", "b">>,
      <<"x", " ", "+", "=", " ", "1">>,
      <<"/", "/", " ", "h", "i", "\n">>,
      <<"i", "f", " ", "a", " ", "{", " ", "}">>,
      <<" ", " ", "/", "/", "x", "\n">>,
      <<"/", "/", "x", "\n", " ", " ">>,
      <<"/", "/", "x", "\n", " ", " ", "x">>,
      <<"/", "/", "\n", "i", "f", "x">>,
      <<"/", "/", "x", "\n", "x", EuroSign>>,
      <<"x", " ", "/", "/", " ", "x", "\n", "i", "f">>,
      <<"d", "e", "f">>,
      <<"e", "x", "t", "e", "n", "d">>,
      <<"w", "i", "t", "h">>,
      <<"e", "l", "s", "e">>,
      <<"f", "o", "r">>,
      <<"s", "t", "r", "u", "c", "t">>,
      <<"I", "f">>,
      <<"d", "e", "f", "_", "0">>,
      <<"f", "o", "r", EAcute, " ">> }

Inputs ==
    Strings(CoreAlphabet, MaxLen) \cup Strings(FullAlphabet, MaxOpLen)
        \cup Scenarios

\* ------------------------------------------------------------------- state

VARIABLES
    original_source_code,   \* Lexer::original_source_code
    source_code,            \* Lexer::source_code, the remaining view
    errors,                 \* Lexer::errors
    thread,                 \* "running", or "panicked" once a call panicked
    returned,               \* what the last call returned
    view_before,            \* source_code when the last call was made
    tokens,                 \* the tokens returned so far, in order
    exhausted_calls         \* how many calls returned None

vars ==
    <<original_source_code, source_code, errors, thread, returned,
      view_before, tokens, exhausted_calls>>

\* What a call hands to its caller.
Returned(out) == [ret |-> out.ret, kind |-> out.kind, text |-> out.text]

NoCall == [ret |-> "NoCall", kind |-> "None", text |-> <<>>]

\* Lexer::new
Init ==
    /\ original_source_code \in Inputs
    /\ source_code = original_source_code
    /\ errors = <<>>
    /\ thread = "running"
    /\ returned = NoCall
    /\ view_before = <<>>
    /\ tokens = <<>>
    /\ exhausted_calls = 0

\* ConsumeToken with a call that reports exhaustion rewinding the remaining
\* view to the original input.
ConsumeToken_Rewinds ==
    /\ thread = "running"
    /\ LET out == consume_token(source_code)
       IN  /\ out.ret = "None" => exhausted_calls < MaxExhaustedCalls
           /\ source_code' =
                IF out.ret = "None" THEN original_source_code ELSE out.rest
           /\ returned' = Returned(out)
           /\ tokens' =
                IF out.ret = "Some"
                THEN Append(tokens, [kind |-> out.kind, text |-> out.text])
                ELSE tokens
           /\ thread' = IF out.ret = "panic" THEN "panicked" ELSE "running"
           /\ exhausted_calls' =
                IF out.ret = "None" THEN exhausted_calls + 1 ELSE exhausted_calls
    /\ view_before' = source_code
    /\ UNCHANGED <<original_source_code, errors>>

\* ConsumeToken with a diagnostic pushed to errors for every Illegal token.
ConsumeToken_RecordsIllegal ==
    /\ thread = "running"
    /\ LET out == consume_token(source_code)
       IN  /\ out.ret = "None" => exhausted_calls < MaxExhaustedCalls
           /\ source_code' = out.rest
           /\ returned' = Returned(out)
           /\ tokens' =
                IF out.ret = "Some"
                THEN Append(tokens, [kind |-> out.kind, text |-> out.text])
                ELSE tokens
           /\ thread' = IF out.ret = "panic" THEN "panicked" ELSE "running"
           /\ exhausted_calls' =
                IF out.ret = "None" THEN exhausted_calls + 1 ELSE exhausted_calls
           /\ errors' =
                IF out.kind = "Illegal" THEN Append(errors, out.text) ELSE errors
    /\ view_before' = source_code
    /\ UNCHANGED original_source_code

\* A call of Lexer::consume_token.
ConsumeToken ==
    /\ thread = "running"
    /\ LET out == consume_token(source_code)
       IN  /\ out.ret = "None" => exhausted_calls < MaxExhaustedCalls
           /\ source_code' = out.rest
           /\ returned' = Returned(out)
           /\ tokens' =
                IF out.ret = "Some"
                THEN Append(tokens, [kind |-> out.kind, text |-> out.text])
                ELSE tokens
           /\ thread' = IF out.ret = "panic" THEN "panicked" ELSE "running"
           /\ exhausted_calls' =
                IF out.ret = "None" THEN exhausted_calls + 1 ELSE exhausted_calls
    /\ view_before' = source_code
    /\ UNCHANGED <<original_source_code, errors>>

\* Iterator::next for Lexer.
IteratorNext == ConsumeToken

Next == ConsumeToken \/ IteratorNext

Spec == Init /\ [][Next]_vars

\* ---------------------------------------------------------- observations

\* consume_token has been called at least once.
Called == returned.ret # "NoCall"

\* The scan is over: a call returned None, or a call panicked.
ScanEnded == returned.ret = "None" \/ thread = "panicked"

RECURSIVE ConcatTexts(_)
\* The texts of a token sequence, concatenated in order.
ConcatTexts(toks) ==
    IF toks = <<>> THEN <<>> ELSE Head(toks).text \o ConcatTexts(Tail(toks))

\* Every scalar of t is whitespace.
IsWhitespaceRun(t) == \A i \in 1..Len(t) : is_whitespace(t[i])

\* t is one comment line: it starts with the marker and holds no newline
\* except as its last scalar.
IsCommentLine(t) ==
    /\ StartsWithComment(t)
    /\ \A i \in 1..(Len(t) - 1) : t[i] # "\n"

\* The prefix of s up to and including its first newline, or all of s.
LineOf(s) ==
    IF \E i \in 1..Len(s) : s[i] = "\n"
    THEN SubSeq(s, 1, CHOOSE i \in 1..Len(s) :
                        s[i] = "\n" /\ \A j \in 1..(i - 1) : s[j] # "\n")
    ELSE s

\* The two-character operators that TokenKind documents, with their kinds.
DocumentedTwoCharsKind(c1, c2) ==
    IF c1 = "=" /\ c2 = "=" THEN "EqualEqual" ELSE TwoCharsKind(c1, c2)

\* ------------------------------------------------------------------ claims

\* C1 (as claimed): for every input S, the tokens of a scan that has ended
\* have texts whose concatenation, in emission order, is S.
C1_Losslessness ==
    ScanEnded => ConcatTexts(tokens) = original_source_code

\* C2 (as claimed): no call of consume_token panics; each returns a token or
\* None, and a view no rule matches yields an Illegal token.
C2_NeverPanics ==
    /\ thread # "panicked"
    /\ returned.ret \in {"NoCall", "Some", "None"}

\* C3 (as claimed): a call on a view that starts with "//" returns one Trivia
\* token whose text is the view up to and including its first newline, or
\* the whole view when it holds no newline.
C3_CommentSpansLine ==
    (Called /\ StartsWithComment(view_before)) =>
        /\ returned.ret = "Some"
        /\ returned.kind = "Trivia"
        /\ returned.text = LineOf(view_before)

\* C4 (as claimed): every Trivia token is either a whitespace run or one
\* comment line, never both; a comment at the cursor is returned as a token
\* of its own, whatever precedes or follows it.
C4_TriviaSeparation ==
    /\ \A i \in 1..Len(tokens) :
          tokens[i].kind = "Trivia" =>
              IsWhitespaceRun(tokens[i].text) \/ IsCommentLine(tokens[i].text)
    /\ (Called /\ StartsWithComment(view_before)) =>
          returned.ret = "Some" /\ IsCommentLine(returned.text)

\* C5 (as claimed): a call on a view that starts with a two-character
\* operator of the documented table returns one token of that operator's
\* kind whose text is those two characters.
C5_TwoCharOperators ==
    (/\ Called
     /\ Len(view_before) >= 2
     /\ DocumentedTwoCharsKind(view_before[1], view_before[2]) # "None") =>
        /\ returned.ret = "Some"
        /\ returned.kind = DocumentedTwoCharsKind(view_before[1], view_before[2])
        /\ returned.text = SubSeq(view_before, 1, 2)

\* The text s starts with the text prefix.
StartsWith(s, prefix) ==
    Len(s) >= Len(prefix) /\ SubSeq(s, 1, Len(prefix)) = prefix

\* The kinds of the one-character rule.
OneCharKinds == {OneCharKind(c) : c \in OperatorChars}

Keywords ==
    { [text |-> <<"d", "e", "f">>, kind |-> "Def"],
      [text |-> <<"e", "x", "t", "e", "n", "d">>, kind |-> "Extend"],
      [text |-> <<"w", "i", "t", "h">>, kind |-> "With"],
      [text |-> <<"i", "f">>, kind |-> "If"],
      [text |-> <<"e", "l", "s", "e">>, kind |-> "Else"],
      [text |-> <<"f", "o", "r">>, kind |-> "For"],
      [text |-> <<"s", "t", "r", "u", "c", "t">>, kind |-> "Struct"] }

\* C7: a call on a view whose first scalar is an identifier start returns a
\* token that is a prefix of the view, holds only identifier-continue
\* scalars after the first and is followed by none (it is greedy); its kind
\* is the keyword's kind when the whole text is a keyword, else Identifier.
C7_KeywordOrIdentifier ==
    (Called /\ view_before # <<>> /\ is_xid_start(view_before[1])) =>
        /\ returned.ret = "Some"
        /\ returned.text \o source_code = view_before
        /\ Len(returned.text) >= 1
        /\ \A i \in 2..Len(returned.text) : is_xid_continue(returned.text[i])
        /\ source_code = <<>> \/ ~is_xid_continue(source_code[1])
        /\ IF \E k \in Keywords : k.text = returned.text
           THEN \E k \in Keywords :
                    k.text = returned.text /\ k.kind = returned.kind
           ELSE returned.kind = "Identifier"

\* C7 witness: a call on the view "ifx" returned the Identifier "ifx".
C7_Witness ==
    /\ view_before = <<"i", "f", "x">>
    /\ returned = [ret |-> "Some", kind |-> "Identifier",
                   text |-> <<"i", "f", "x">>]

\* C8 (as claimed): a call on a non-empty view returns a token of at least
\* one byte and shortens the view by exactly the bytes of the token's text.
C8_Progress ==
    (Called /\ view_before # <<>>) =>
        /\ returned.ret = "Some"
        /\ ByteLen(returned.text) >= 1
        /\ ByteLen(source_code) = ByteLen(view_before) - ByteLen(returned.text)

\* C9 (as claimed): a scan of an input of N bytes never stops short of a
\* call that returns None (while None has not been returned, the next call
\* can be made), and it returns at most N tokens.
C9_Termination ==
    /\ returned.ret = "None" \/ thread = "running"
    /\ Len(tokens) <= ByteLen(original_source_code)

\* C10: a call on an empty view returns None and changes nothing of the
\* lexer; after a call has returned None, every call returns None and no
\* token is added.
C10_PermanentExhaustion ==
    [][ /\ source_code = <<>> =>
              /\ returned'.ret = "None"
              /\ source_code' = source_code
              /\ original_source_code' = original_source_code
              /\ errors' = errors
              /\ tokens' = tokens
        /\ returned.ret = "None" =>
              /\ returned'.ret = "None"
              /\ tokens' = tokens ]_vars

\* C10 witness: after at least one token, two calls have returned None.
C10_Witness ==
    /\ tokens # <<>>
    /\ source_code = <<>>
    /\ returned.ret = "None"
    /\ exhausted_calls >= 2

\* No rule matches at the scalar c: it is not whitespace, starts no comment
\* or operator, and is no identifier start.
MatchesNoRule(c) ==
    ~is_whitespace(c) /\ OneCharKind(c) = "None" /\ ~is_xid_start(c)

\* C11 (as claimed): a call on a view whose first scalar matches no rule
\* returns one Illegal token holding exactly that scalar, whether ASCII or
\* not, and leaves the view at the scalar that follows.
C11_IllegalFallback ==
    (Called /\ view_before # <<>> /\ MatchesNoRule(view_before[1])) =>
        /\ returned = [ret |-> "Some", kind |-> "Illegal",
                       text |-> <<view_before[1]>>]
        /\ source_code = Tail(view_before)

\* The input "x += 1".
XPlusEqualOne == <<"x", " ", "+", "=", " ", "1">>

\* C12 (as claimed): the scan of "x += 1" yields Identifier "x", Trivia " ",
\* PlusEqual "+=", Trivia " ", Identifier "1".
C12_DigitIsIdentifier ==
    (original_source_code = XPlusEqualOne /\ returned.ret = "None") =>
        tokens = << [kind |-> "Identifier", text |-> <<"x">>],
                    [kind |-> "Trivia", text |-> <<" ">>],
                    [kind |-> "PlusEqual", text |-> <<"+", "=">>],
                    [kind |-> "Trivia", text |-> <<" ">>],
                    [kind |-> "Identifier", text |-> <<"1">>] >>

\* C12 (amended): the scan of "x += 1" yields Identifier "x", Trivia " ",
\* PlusEqual "+=", Trivia " ", Illegal "1": a digit-led unit is Illegal.
C12_DigitIsIllegal ==
    (original_source_code = XPlusEqualOne /\ returned.ret = "None") =>
        tokens = << [kind |-> "Identifier", text |-> <<"x">>],
                    [kind |-> "Trivia", text |-> <<" ">>],
                    [kind |-> "PlusEqual", text |-> <<"+", "=">>],
                    [kind |-> "Trivia", text |-> <<" ">>],
                    [kind |-> "Illegal", text |-> <<"1">>] >>

\* C12 witness: "x += 1" has been scanned to exhaustion in five tokens.
C12_Witness ==
    /\ original_source_code = XPlusEqualOne
    /\ returned.ret = "None"
    /\ Len(tokens) = 5

\* C14: in every reachable state the texts of the tokens returned so far,
\* followed by the remaining view, are the original input; the text of the
\* token a call returns is the prefix that call removed from the view, a
\* call that returns no token removes nothing, and original_source_code
\* never changes.
C14_CursorInvariant ==
    /\ [](/\ ConcatTexts(tokens) \o source_code = original_source_code
          /\ (Called /\ returned.ret = "Some") =>
                /\ returned.text \o source_code = view_before
                /\ tokens[Len(tokens)].text = returned.text
          /\ (Called /\ returned.ret # "Some") => source_code = view_before)
    /\ [][original_source_code' = original_source_code]_vars

\* C14 witness: two tokens have been returned and part of the input remains.
C14_Witness ==
    /\ Len(tokens) >= 2
    /\ returned.ret = "Some"
    /\ source_code # <<>>

IsWhitespaceToken(tok) ==
    tok.kind = "Trivia" /\ tok.text # <<>> /\ IsWhitespaceRun(tok.text)

\* C16: a call on a view that starts with whitespace returns a Trivia token
\* holding the whole leading run of whitespace, newlines included, so that
\* the view left starts with no whitespace; the token that follows a
\* whitespace Trivia token never starts with whitespace, and so is no
\* whitespace Trivia token.
C16_WhitespaceMaximal ==
    /\ (Called /\ view_before # <<>> /\ is_whitespace(view_before[1])) =>
          /\ returned.ret = "Some"
          /\ IsWhitespaceToken(returned)
          /\ returned.text \o source_code = view_before
          /\ source_code = <<>> \/ ~is_whitespace(source_code[1])
    /\ \A i \in 1..(Len(tokens) - 1) :
          IsWhitespaceToken(tokens[i]) =>
              /\ tokens[i + 1].text # <<>>
              /\ ~is_whitespace(tokens[i + 1].text[1])
              /\ ~IsWhitespaceToken(tokens[i + 1])

\* C16 witness: a whitespace token that spans a newline was returned and
\* another token followed it.
C16_Witness ==
    \E i \in 1..(Len(tokens) - 1) :
        /\ IsWhitespaceToken(tokens[i])
        /\ Len(tokens[i].text) >= 2
        /\ \E j \in 1..(Len(tokens[i].text) - 1) : tokens[i].text[j] = "\n"

\* The literal kinds of TokenKind other than Identifier.
LiteralKinds == {"IntegerLiteral", "FloatLiteral", "StringLiteral"}

\* C17: no token returned has kind IntegerLiteral, FloatLiteral or
\* StringLiteral; a call on a view that starts with a digit or a quote
\* returns an Illegal token holding that one character.
C17_NoLiteralTokens ==
    /\ \A i \in 1..Len(tokens) : tokens[i].kind \notin LiteralKinds
    /\ returned.kind \notin LiteralKinds
    /\ (Called /\ view_before # <<>> /\ view_before[1] \in Digits \cup {"\""}) =>
          returned = [ret |-> "Some", kind |-> "Illegal",
                      text |-> <<view_before[1]>>]

\* C17 witness: a digit and a quote have each been returned as an Illegal
\* token.
C17_Witness ==
    /\ \E i \in 1..Len(tokens) :
          tokens[i].kind = "Illegal" /\ tokens[i].text[1] \in Digits
    /\ \E i \in 1..Len(tokens) :
          tokens[i] = [kind |-> "Illegal", text |-> <<"\"">>]

\* C18: errors is empty after construction and after every call, calls that
\* return Illegal tokens included.
C18_ErrorsStayEmpty == errors = <<>>

\* C18 witness: an Illegal token has been returned and errors is empty.
C18_Witness ==
    /\ \E i \in 1..Len(tokens) : tokens[i].kind = "Illegal"
    /\ errors = <<>>

\* What each rule returns when it is tried on the view s, with the scalars
\* at the cursor as consume_token passes them.
RuleAttempts(s) ==
    {consume_whitespace(s), consume_comment(s), consume_trivia(s),
     consume_keyword_or_identifier_token(s)}
        \cup (IF Len(s) >= 1 THEN {consume_one_char_token(s, s[1])} ELSE {})
        \cup (IF Len(s) >= 2
              THEN {consume_two_chars_token(s, s[1], s[2])} ELSE {})

\* The first rule, in priority order, that does not return None when each
\* rule is tried on the same view s; the Illegal fallback when none does.
FirstMatch(s) ==
    IF consume_whitespace(s).ret # "None" THEN consume_whitespace(s)
    ELSE IF consume_comment(s).ret # "None" THEN consume_comment(s)
    ELSE IF Len(s) >= 2 /\ consume_two_chars_token(s, s[1], s[2]).ret # "None"
         THEN consume_two_chars_token(s, s[1], s[2])
    ELSE IF consume_one_char_token(s, s[1]).ret # "None"
         THEN consume_one_char_token(s, s[1])
    ELSE IF consume_keyword_or_identifier_token(s).ret # "None"
         THEN consume_keyword_or_identifier_token(s)
    ELSE SliceToken(s, 1, "Illegal")

\* C19: a rule that returns None on a view leaves the view as it was, for the
\* view of the last call and for the remaining view; hence what a call
\* returns is what the first matching rule returns on the view the call
\* started from.
C19_NoMatchLeavesView ==
    /\ \A out \in RuleAttempts(view_before) :
          out.ret = "None" => out.rest = view_before
    /\ \A out \in RuleAttempts(source_code) :
          out.ret = "None" => out.rest = source_code
    /\ (Called /\ view_before # <<>>) =>
          /\ returned = Returned(FirstMatch(view_before))
          /\ source_code = FirstMatch(view_before).rest

\* C19 witness: a call returned an Identifier after the trivia, the
\* two-character and the one-character rule each returned None.
C19_Witness ==
    /\ Called
    /\ Len(view_before) >= 2
    /\ returned.kind = "Identifier"
    /\ consume_trivia(view_before).ret = "None"
    /\ consume_two_chars_token(view_before, view_before[1],
                               view_before[2]).ret = "None"
    /\ consume_one_char_token(view_before, view_before[1]).ret = "None"

====
